---- MODULE Spec2Model ----
(***************************************************************************)
(* A model of mlpack's feed-forward network engine                         *)
(* (src/mlpack/methods/ann/ffn_impl.hpp): the FFN object's fields, and one *)
(* action per public operation of the class.  Matrices are modelled by     *)
(* their shape, buffers by their element count, and an alias made by       *)
(* MakeAlias by the buffer it points into, its offset and its shape.       *)
(* Layers are opaque: a layer is its WeightSize(), its OutputSize(), its   *)
(* recorded InputDimensions(), its Deterministic() flag and the weight     *)
(* pointer SetWeights() gave it.                                           *)
(***************************************************************************)
EXTENDS Integers, Sequences, FiniteSets, TLC

\* ------------------------------------------------------------------ bounds
\* Layer sequences: at most MaxLayers layers, WeightSize() in 0..MaxWeight,
\* OutputSize() in 1..MaxOut.
MaxLayers == 2
MaxWeight == 1
MaxOut == 2
\* Declared input shapes: at most MaxAxes axes of 1..MaxDim each.
MaxAxes == 2
MaxDim == 3
\* Inputs: 1..MaxRows rows, 1..MaxBatch columns (the batch size).
MaxRows == 1
MaxBatch == 2
\* A loaded parameter buffer holds 0..MaxParams elements.
MaxParams == 3
\* The arena specification: batches of 1..MaxArenaBatch columns.
MaxArenaBatch == 12
\* The shape specification: inputs of 1..MaxShapeRows rows.
MaxShapeRows == 6
\* The dataset mapper: dimensions 0..MaxMapDims - 1, strings 1..MaxStrings.
MaxMapDims == 2
MaxStrings == 2

\* ----------------------------------------------------------------- helpers
RECURSIVE SumSeq(_)
SumSeq(q) == IF q = <<>> THEN 0 ELSE Head(q) + SumSeq(Tail(q))

RECURSIVE ProdSeq(_)
ProdSeq(q) == IF q = <<>> THEN 1 ELSE Head(q) * ProdSeq(Tail(q))

\* The sequences over S of length 0..n.
SeqUpTo(S, n) == UNION {[1..k -> S] : k \in 0..n}

\* std::accumulate(v.begin(), v.end(), 0): the default operation is addition.
Accumulate(dims) == SumSeq(dims)

\* std::floor(0.1 * n) for an element count n: the double nearest 0.1 is
\* above 0.1, so the product is never below the exact tenth and the floor is
\* the integer quotient.
FloorTenth(n) == n \div 10

\* ------------------------------------------------------------------- views
\* A matrix that owns nothing: OutputType() before MakeAlias.
NoView == [buf |-> "none", off |-> 0, rows |-> 0, cols |-> 0]

\* MatType(newMem, numRows, numCols, false, true) placed over m.
MakeAlias(off, numRows, numCols) ==
  [buf |-> "cur", off |-> off, rows |-> numRows, cols |-> numCols]

\* What a view into a buffer becomes when that buffer is released.
Released(v) == IF v.buf = "cur" THEN [v EXCEPT !.buf = "stale"] ELSE v

\* ------------------------------------------------------------------ layers
\* A layer as the engine sees it.
NewLayer(ws, os) ==
  [ws |-> ws, os |-> os, inDims |-> <<>>, det |-> FALSE, w |-> NoView]

\* The layer sequences of the main specification: any weight sizes, one
\* output each.
Networks ==
  UNION {[1..k -> {NewLayer(ws, 1) : ws \in 0..MaxWeight}] : k \in 1..MaxLayers}

\* The layer sequences of the arena and shape specifications: any output
\* sizes, one weight each.
ArenaNetworks ==
  UNION {[1..k -> {NewLayer(1, os) : os \in 1..MaxOut}] : k \in 1..MaxLayers}

WithDet(net, det) == [i \in DOMAIN net |-> [net[i] EXCEPT !.det = det]]

\* New layer objects of the same kinds: what an archive of net holds.
Archived(net) == [i \in DOMAIN net |-> NewLayer(net[i].ws, net[i].os)]

WeightSizes(net) == [i \in DOMAIN net |-> net[i].ws]
OutputSizes(net) == [i \in DOMAIN net |-> net[i].os]

\* Sum of WeightSize() over the layers before the 1-based position i.
WeightOffset(net, i) == SumSeq(SubSeq(WeightSizes(net), 1, i - 1))

TotalWeightSize(net) == SumSeq(WeightSizes(net))

\* The declared input shapes; <<>> is none declared.
ShapeChoices == SeqUpTo(1..MaxDim, MaxAxes)

\* ------------------------------------------------------------- the object
VARIABLES
  reset, network, parameters, inputDimensions, predictors, numFunctions,
  deterministic, layerMemoryIsSet, inputDimensionsAreSet,
  totalInputSize, totalOutputSize, layerOutputMatrix, layerOutputs,
  deltaMatrix, layerDeltas, layerGradients,
  \* what the last operation did (history, not a field of the class)
  tr,
  \* a DatasetMapper, an object of its own: its maps and types, and what
  \* the last call on it did (history)
  maps, types, lookup

vars == <<reset, network, parameters, inputDimensions, predictors,
  numFunctions, deterministic, layerMemoryIsSet, inputDimensionsAreSet,
  totalInputSize, totalOutputSize, layerOutputMatrix, layerOutputs,
  deltaMatrix, layerDeltas, layerGradients, tr, maps, types, lookup>>

\* The fields of the network and its history.
engine == <<reset, network, parameters, inputDimensions, predictors,
  numFunctions, deterministic, layerMemoryIsSet, inputDimensionsAreSet,
  totalInputSize, totalOutputSize, layerOutputMatrix, layerOutputs,
  deltaMatrix, layerDeltas, layerGradients, tr>>

NoMat == [rows |-> 0, cols |-> 0]

\* The history of one operation, cleared when the next one starts.
NoTrace ==
  [op |-> "none", exc |-> "none",
   \* InitializeWeights calls; whether SetLayerMemory ran to its end
   initCalls |-> 0, slm |-> FALSE,
   \* the layer calls made, in order
   calls |-> <<>>,
   \* the last Forward: entered past the range test, the input's rows,
   \* whether the dimensions were passed through the network
   entered |-> FALSE, rows |-> 0, resolved |-> FALSE,
   \* the last InitializeForwardPassMemory: its batch size, the elements
   \* it asked for, whether layerOutputMatrix was replaced
   fwdRan |-> FALSE, fwdB |-> 0, fwdR |-> 0, fwdRealloc |-> FALSE,
   \* the last InitializeBackwardPassMemory: its batch size, the elements
   \* it asked for, whether deltaMatrix was replaced
   bwdRan |-> FALSE, bwdB |-> 0, bwdR |-> 0, bwdRealloc |-> FALSE,
   \* the range [begin, end] a caller gave Forward; the element count the
   \* last results.set_size was given (0: never called)
   begin |-> 0, end |-> 0, setSize |-> 0,
   \* the passes an operation over a dataset made, in order (first column,
   \* columns, the network's deterministic flag at the pass); the terms
   \* summed into the value it returns, in order
   passes |-> <<>>, res |-> <<>>,
   \* the columns of the matrix a caller gave Predict
   samples |-> 0,
   \* a save and load: the names written, in order; what was saved and what
   \* the load left in its place; the weights the layers computed with in
   \* the Predict before the save and in the one after the load
   archive |-> <<>>, saved |-> <<>>, loaded |-> <<>>,
   before |-> <<>>, after |-> <<>>,
   \* whether the caller's gradient matrix is one of any size, and its
   \* element count
   gradGiven |-> FALSE, gradElems |-> 0,
   \* whether the operation itself (not a layer) named an element that a
   \* vector of views does not have
   outside |-> FALSE,
   \* two rounds of Forward, Backward and Gradient on one input: what each
   \* round did and left (<<>>: the round did not run), and the number of
   \* layer calls made when the second round began
   round1 |-> <<>>, round2 |-> <<>>, mark |-> 0]

Self ==
  [reset |-> reset, network |-> network, parameters |-> parameters,
   inputDimensions |-> inputDimensions, predictors |-> predictors,
   numFunctions |-> numFunctions,
   deterministic |-> deterministic, layerMemoryIsSet |-> layerMemoryIsSet,
   inputDimensionsAreSet |-> inputDimensionsAreSet,
   totalInputSize |-> totalInputSize, totalOutputSize |-> totalOutputSize,
   layerOutputMatrix |-> layerOutputMatrix, layerOutputs |-> layerOutputs,
   deltaMatrix |-> deltaMatrix, layerDeltas |-> layerDeltas,
   layerGradients |-> layerGradients, tr |-> tr]

\* The object as a public operation finds it: its fields, a fresh history.
Enter(op) == [Self EXCEPT !.tr = [NoTrace EXCEPT !.op = op]]

Install(s) ==
  /\ reset' = s.reset
  /\ network' = s.network
  /\ parameters' = s.parameters
  /\ inputDimensions' = s.inputDimensions
  /\ predictors' = s.predictors
  /\ numFunctions' = s.numFunctions
  /\ deterministic' = s.deterministic
  /\ layerMemoryIsSet' = s.layerMemoryIsSet
  /\ inputDimensionsAreSet' = s.inputDimensionsAreSet
  /\ totalInputSize' = s.totalInputSize
  /\ totalOutputSize' = s.totalOutputSize
  /\ layerOutputMatrix' = s.layerOutputMatrix
  /\ layerOutputs' = s.layerOutputs
  /\ deltaMatrix' = s.deltaMatrix
  /\ layerDeltas' = s.layerDeltas
  /\ layerGradients' = s.layerGradients
  /\ tr' = s.tr
  /\ UNCHANGED <<maps, types, lookup>>

Threw(s) == s.tr.exc # "none"

\* Log::Assert(condition, message): a failed assertion throws, and the
\* operation ends there with the fields as they are.
Throw(s, what) == [s EXCEPT !.tr.exc = what]


\* -------------------------------------------------------------- operations
\* FFN::ResetDeterministic.
ResetDeterministic(s) == [s EXCEPT !.network = WithDet(s.network, TRUE)]

\* NetworkInitialization::Initialize(network, parameters): an empty buffer is
\* allocated with the layers' total weight size and filled by the rule.
NetworkInit(s) ==
  LET net == s.network
      weights == TotalWeightSize(net)
  IN IF s.parameters = 0 /\ weights > 0
     THEN [s EXCEPT !.parameters = weights,
                    !.network = [i \in DOMAIN net |->
                                   [net[i] EXCEPT !.w = Released(net[i].w)]]]
     ELSE s

\* FFN::InitializeWeights.
InitializeWeights(s) ==
  NetworkInit([ResetDeterministic(s) EXCEPT !.tr.initCalls = @ + 1])

\* The first 1-based position whose weights would pass the end of the
\* parameters (the assertion inside the loop), or 0.
FirstPastEnd(net, nElem) ==
  LET bad == {i \in DOMAIN net : WeightOffset(net, i) + net[i].ws > nElem}
  IN IF bad = {} THEN 0 ELSE CHOOSE i \in bad : \A j \in bad : i <= j

\* SetWeights with a fault: the running offset is never advanced, so every
\* view starts at the head of the parameters.  C1 must tell it apart.
SetWeightsAtHead(net, i) ==
  [net[i] EXCEPT !.w = MakeAlias(0, net[i].ws, 1)]

\* network[i]->SetWeights(parameters.memptr() + totalWeightSize).
SetWeights(net, i) ==
  [net[i] EXCEPT !.w = MakeAlias(WeightOffset(net, i), net[i].ws, 1)]

\* The assertion that ends FFN::SetLayerMemory.
WeightsMatch(totalWeightSize, nElem) == totalWeightSize = nElem

\* FFN::SetLayerMemory.
SetLayerMemory(s) ==
  LET net == s.network
      stop == FirstPastEnd(net, s.parameters)
      upTo == IF stop = 0 THEN Len(net) ELSE stop - 1
      set == [i \in DOMAIN net |-> IF i <= upTo THEN SetWeights(net, i)
                                    ELSE net[i]]
      s1 == [s EXCEPT !.network = set]
  IN IF stop # 0 THEN Throw(s1, "SizeMismatch")
     ELSE IF ~WeightsMatch(TotalWeightSize(net), s.parameters)
          THEN Throw(s1, "SizeMismatch")
          ELSE [s1 EXCEPT !.layerMemoryIsSet = TRUE, !.tr.slm = TRUE]

\* FFN::ResetData.
ResetData(s, preds, resps) ==
  LET s1 == [s EXCEPT !.numFunctions = resps.cols, !.predictors = preds,
                      !.deterministic = FALSE]
      s2 == ResetDeterministic(s1)
  IN IF ~s2.reset THEN InitializeWeights(s2) ELSE s2

\* ---------------------------------------------------------------- Forward
\* The part of FFN::Forward that passes the input dimensions through the
\* network.
PassDimensions(s, inputs) ==
  LET net == s.network
      n == Len(net)
      dims == IF Len(s.inputDimensions) = 0 THEN <<inputs.rows>>
              ELSE s.inputDimensions
      first == Accumulate(dims)
      \* for (i = 1; i < network.size(); ++i): 0-based i is position i + 1
      inner == SumSeq([k \in 1..(n - 1) |->
                        IF k + 1 # n THEN net[k + 1].os ELSE 0])
      outs == SumSeq([k \in 1..(n - 1) |-> net[k + 1].os])
      chained == [k \in 1..n |->
                    [net[k] EXCEPT !.inDims = IF k = 1 THEN dims
                                              ELSE <<net[k - 1].os>>]]
      s1 == [s EXCEPT !.inputDimensions = dims, !.totalInputSize = first,
                      !.tr.resolved = TRUE]
  IN IF first # inputs.rows THEN Throw(s1, "ShapeMismatch")
     ELSE [s1 EXCEPT !.totalInputSize = first + inner,
                     !.totalOutputSize = outs,
                     !.network = chained,
                     !.inputDimensionsAreSet = TRUE]

\* Whether FFN::Forward passes the dimensions on this call.
NeedsDimensions(s) ==
  s.network[1].inDims # s.inputDimensions \/ ~s.inputDimensionsAreSet

\* The test with a fault: no hysteresis, the arena is replaced whenever the
\* request differs from what it holds.  C8 must tell it apart.
ForwardReallocOnChange(r, c) == r # c

\* The test of InitializeForwardPassMemory: replace layerOutputMatrix when r
\* elements are requested and it holds c.
ForwardRealloc(r, c) == r > c \/ r < FloorTenth(c)

\* The loop of InitializeForwardPassMemory that sums the layers' sizes into
\* totalInputSize: the test i < network.size() holds for every layer.
ForwardInputSize(dims, net) == Accumulate(dims) + SumSeq(OutputSizes(net))

\* FFN::InitializeForwardPassMemory.
InitializeForwardPassMemory(s, batchSize) ==
  LET net == s.network
      tin == ForwardInputSize(s.inputDimensions, net)
      tout == SumSeq(OutputSizes(net))
      r == batchSize * tout
      c == s.layerOutputMatrix
      realloc == ForwardRealloc(r, c)
      start(i) == batchSize * SumSeq(SubSeq(OutputSizes(net), 1, i - 1))
      bad == {i \in DOMAIN s.layerOutputs :
                start(i) + net[i].os * batchSize > batchSize * tout}
      upTo == IF bad = {} THEN Len(s.layerOutputs)
              ELSE (CHOOSE i \in bad : \A j \in bad : i <= j) - 1
      views == [i \in DOMAIN s.layerOutputs |->
                  IF i <= upTo THEN MakeAlias(start(i), net[i].os, batchSize)
                  ELSE IF realloc THEN Released(s.layerOutputs[i])
                       ELSE s.layerOutputs[i]]
      s1 == [s EXCEPT !.totalInputSize = tin, !.totalOutputSize = tout,
                      !.layerOutputMatrix = IF realloc THEN r ELSE c,
                      !.layerOutputs = views,
                      !.tr.fwdRan = TRUE, !.tr.fwdB = batchSize,
                      !.tr.fwdR = r,
                      !.tr.fwdRealloc = realloc]
  IN IF bad # {} THEN Throw(s1, "AliasOutsideBounds") ELSE s1

\* The vectors of views a layer call can name.
Views == {"layerOutputs", "layerDeltas", "layerGradients"}

\* One layer call: the layer (0-based), its two inputs and its output, each
\* a place ("input", "results", "error", or a vector of views and an index).
Call(kind, layer, a, aIdx, b, bIdx, out, outIdx) ==
  [kind |-> kind, layer |-> layer, a |-> a, aIdx |-> aIdx, b |-> b,
   bIdx |-> bIdx, out |-> out, outIdx |-> outIdx]

\* The layer calls with a fault: the last layer of the range writes its
\* arena view like every other layer, and results is left alone.  C12 must
\* tell it apart.
ForwardCallsIntoViews(begin, end) ==
  [k \in 1..(end - begin + 1) |->
     LET i == begin + k - 1
     IN [kind |-> "Forward", layer |-> i,
         a |-> IF i = begin THEN "input" ELSE "layerOutputs",
         aIdx |-> IF i = begin THEN 0 ELSE i - 1,
         b |-> "none", bIdx |-> 0,
         out |-> "layerOutputs", outIdx |-> i]]

\* The layer calls of FFN::Forward over [begin, end].
ForwardCalls(begin, end) ==
  [k \in 1..(end - begin + 1) |->
     LET i == begin + k - 1
     IN Call("Forward", i,
             IF i = begin THEN "input" ELSE "layerOutputs",
             IF i = begin THEN 0 ELSE i - 1,
             "none", 0,
             IF i = end THEN "results" ELSE "layerOutputs",
             IF i = end THEN 0 ELSE i)]

\* FFN::Forward(inputs, results, begin, end) is the steps below in order.
\* Entering it: the history notes the call and its input's rows.
ForwardEntered(s, inputs) ==
  [s EXCEPT !.tr.entered = TRUE, !.tr.rows = inputs.rows,
            !.tr.resolved = FALSE, !.tr.fwdRan = FALSE]

\* if (parameters.is_empty()) InitializeWeights();
ForwardWeights(s) == IF s.parameters = 0 THEN InitializeWeights(s) ELSE s

\* if (!layerMemoryIsSet) SetLayerMemory();
ForwardLayerMemory(s) ==
  IF ~s.layerMemoryIsSet THEN SetLayerMemory(s) ELSE s

\* The input dimensions are passed through the network if needed.
ForwardDimensions(s, inputs) ==
  IF Threw(s) THEN s
  ELSE IF NeedsDimensions(s) THEN PassDimensions(s, inputs) ELSE s

\* InitializeForwardPassMemory(inputs.n_cols);
ForwardPassMemory(s, inputs) ==
  IF Threw(s) THEN s ELSE InitializeForwardPassMemory(s, inputs.cols)

\* results.set_size(inputs.n_cols * network[end]->OutputSize()), then the
\* layer calls.  results is either a matrix of the caller's (toBack = FALSE)
\* or layerOutputs.back() itself.
ForwardLayers(s, inputs, toBack, begin, end) ==
  IF Threw(s) THEN s
  ELSE LET n == Len(s.network)
           sized == IF toBack
                    THEN [s.layerOutputs EXCEPT
                            ![n].rows = inputs.cols * s.network[end + 1].os,
                            ![n].cols = 1]
                    ELSE s.layerOutputs
           made == ForwardCalls(begin, end)
           \* results names layerOutputs.back() itself when toBack
           calls == IF toBack
                    THEN [made EXCEPT ![Len(made)].out = "layerOutputs",
                                      ![Len(made)].outIdx = n - 1]
                    ELSE made
       IN [s EXCEPT !.layerOutputs = sized,
                    !.tr.setSize = inputs.cols * s.network[end + 1].os,
                    !.tr.calls = @ \o calls]

\* Forward with a fault: the range is not tested.  C11 must tell it apart.
ForwardUntested(s, inputs, toBack, begin, end) ==
  ForwardLayers(
    ForwardPassMemory(
      ForwardDimensions(
        ForwardLayerMemory(ForwardWeights(ForwardEntered(s, inputs))),
        inputs),
      inputs),
    inputs, toBack, begin, end)

\* FFN::Forward(inputs, results, begin, end).
Forward(s, inputs, toBack, begin, end) ==
  IF end < begin THEN s
  ELSE ForwardLayers(
         ForwardPassMemory(
           ForwardDimensions(
             ForwardLayerMemory(ForwardWeights(ForwardEntered(s, inputs))),
             inputs),
           inputs),
         inputs, toBack, begin, end)

\* --------------------------------------------------------------- Backward
\* The test with a fault: the request is compared with the output arena
\* alone.  C26 must tell it apart.
BackwardReallocByOutput(r, c, oc) == r > oc \/ r < FloorTenth(oc)

\* The test of InitializeBackwardPassMemory: replace deltaMatrix when r
\* elements are requested, it holds c and layerOutputMatrix holds oc.
BackwardRealloc(r, c, oc) == r > c \/ r < FloorTenth(oc)

\* FFN::InitializeBackwardPassMemory.
InitializeBackwardPassMemory(s, batchSize) ==
  LET net == s.network
      inputSize == Accumulate(s.inputDimensions)
      r == batchSize * s.totalInputSize
      c == s.deltaMatrix
      realloc == BackwardRealloc(r, c, s.layerOutputMatrix)
      layerInputSize(i) == IF i = 1 THEN inputSize ELSE net[i - 1].os
      start(i) == batchSize *
                    SumSeq([k \in 1..(i - 1) |-> layerInputSize(k)])
      bad == {i \in DOMAIN s.layerDeltas :
                start(i) + layerInputSize(i) * batchSize > r}
      upTo == IF bad = {} THEN Len(s.layerDeltas)
              ELSE (CHOOSE i \in bad : \A j \in bad : i <= j) - 1
      views == [i \in DOMAIN s.layerDeltas |->
                  IF i <= upTo
                  THEN MakeAlias(start(i), layerInputSize(i), batchSize)
                  ELSE IF realloc THEN Released(s.layerDeltas[i])
                       ELSE s.layerDeltas[i]]
      s1 == [s EXCEPT !.deltaMatrix = IF realloc THEN r ELSE c,
                      !.layerDeltas = views,
                      !.tr.bwdRan = TRUE, !.tr.bwdB = batchSize,
                      !.tr.bwdR = r,
                      !.tr.bwdRealloc = realloc]
  IN IF bad # {} THEN Throw(s1, "AliasOutsideBounds") ELSE s1

\* The layer calls of FFN::Backward() on n layers: the last layer, then
\* for (i = 2; i <= network.size(); ++i) the layer network.size() - i.
BackwardCalls(n) ==
  <<Call("Backward", n - 1, "layerOutputs", n - 1, "error", 0,
         "layerDeltas", n - 1)>>
  \o [k \in 1..(n - 1) |->
        LET i == n - 1 - k
        IN Call("Backward", i, "layerOutputs", i, "layerDeltas", i + 1,
                "layerDeltas", i)]

\* FFN::Backward().
Backward(s) ==
  LET n == Len(s.network)
      s1 == InitializeBackwardPassMemory(s, s.layerOutputs[n].cols)
  IN IF Threw(s1) THEN s1
     ELSE [s1 EXCEPT !.tr.calls = @ \o BackwardCalls(n)]

\* --------------------------------------------------------------- Gradient
\* InitializeGradientPassMemory with a fault: the views are laid out by the
\* layers' OutputSize().  C16 must tell it apart.
GradientViewsByOutput(s) ==
  [s EXCEPT !.layerGradients =
     [i \in DOMAIN s.layerGradients |->
        MakeAlias(SumSeq(SubSeq(OutputSizes(s.network), 1, i - 1)),
                  s.network[i].os, 1)]]

\* FFN::InitializeGradientPassMemory: the views into the caller's gradient.
InitializeGradientPassMemory(s) ==
  [s EXCEPT !.layerGradients =
     [i \in DOMAIN s.layerGradients |->
        MakeAlias(WeightOffset(s.network, i), s.network[i].ws, 1)]]

\* The layer calls with a fault: the last layer is given the delta view
\* after its own instead of the error.  C15 must tell it apart.
GradientCallsOnDeltas(n) ==
  [k \in 1..n |->
     [kind |-> "Gradient", layer |-> k - 1,
      a |-> IF k = 1 THEN "input" ELSE "layerOutputs",
      aIdx |-> IF k = 1 THEN 0 ELSE k - 2,
      b |-> "layerDeltas", bIdx |-> k,
      out |-> "layerGradients", outIdx |-> k - 1]]

\* The layer calls of FFN::Gradient(input, gradient) on n layers.  With one
\* layer the indices 1 of layerDeltas and n - 2 of layerOutputs name no
\* element.
GradientCalls(n) ==
  <<Call("Gradient", 0, "input", 0, "layerDeltas", 1, "layerGradients", 0)>>
  \o [k \in 1..(IF n > 2 THEN n - 2 ELSE 0) |->
        Call("Gradient", k, "layerOutputs", k - 1, "layerDeltas", k + 1,
             "layerGradients", k)]
  \o <<Call("Gradient", n - 1, "layerOutputs", n - 2, "error", 0,
            "layerGradients", n - 1)>>

\* Whether a layer call names an element no vector of n views has.
PastEnd(c, n) ==
  \/ c.a \in Views /\ c.aIdx \notin 0..(n - 1)
  \/ c.b \in Views /\ c.bIdx \notin 0..(n - 1)
  \/ c.out \in Views /\ c.outIdx \notin 0..(n - 1)

\* The calls of a sequence up to and including the first one that names an
\* element past the end of a vector.
UpToPastEnd(calls, n) ==
  LET bad == {k \in DOMAIN calls : PastEnd(calls[k], n)}
  IN IF bad = {} THEN calls
     ELSE SubSeq(calls, 1, CHOOSE k \in bad : \A j \in bad : k <= j)

\* FFN::Gradient(input, gradient).  Indexing a std::vector past its end is
\* undefined: the call either reads whatever lies there and goes on, or
\* (fault) the process stops at it.
Gradient(s, fault) ==
  LET n == Len(s.network)
      calls == GradientCalls(n)
      g == InitializeGradientPassMemory(s)
  IN IF fault /\ UpToPastEnd(calls, n) # calls
     THEN Throw([g EXCEPT !.tr.calls = @ \o UpToPastEnd(calls, n)], "Crash")
     ELSE [g EXCEPT !.tr.calls = @ \o calls]

\* Gradient(inputs, gradients) unless the step before it threw.
ThenGradient(s, fault) == IF Threw(s) THEN s ELSE Gradient(s, fault)

\* FFN::Backward(inputs, targets, gradients).
BackwardPublic(s, fault) == ThenGradient(Backward(s), fault)

\* FFN::Backward(inputs, targets, gradients) on a network with no layer.
\* Nothing tests network.size(): layerOutputs[network.size() - 1] names an
\* element of an empty vector, which is undefined.  Either the process
\* stops at that read (fault), or it goes on through network.back()->
\* Backward and network.front()->Gradient on layers that do not exist and
\* stops no later than in the loop of Gradient, whose bound
\* network.size() - 1 wraps around.
BackwardOnEmpty(s, fault) ==
  IF fault THEN Throw([s EXCEPT !.tr.outside = TRUE], "Crash")
  ELSE Throw([s EXCEPT !.tr.outside = TRUE,
                       !.tr.calls = BackwardCalls(0)
                                    \o <<Call("Gradient", 0, "input", 0,
                                              "layerDeltas", 1,
                                              "layerGradients", 0)>>],
             "Crash")

\* --------------------------------------------------- objective functions
\* if (this->deterministic != deterministic) of FFN::Evaluate.
SetMode(s, det) ==
  IF det # s.deterministic
  THEN ResetDeterministic([s EXCEPT !.deterministic = det])
  ELSE s

\* A pass over the columns [begin, begin + batchSize) starts.
NotePass(s, begin, batchSize) ==
  [s EXCEPT !.tr.passes = Append(@, [begin |-> begin, batch |-> batchSize,
                                     det |-> s.deterministic])]

\* outputLayer.Forward(layerOutputs.back(), responses.cols(begin, ...)): the
\* loss of the output layer on a batch, as a term of a returned value.
OutputLoss(begin, batchSize) ==
  [kind |-> "output", begin |-> begin, batch |-> batchSize]

\* for (i ...) res += network[i]->Loss(): the layers' own losses after the
\* pass over a batch, as a term of a returned value.
LayerLosses(begin, batchSize) ==
  [kind |-> "layers", begin |-> begin, batch |-> batchSize]

\* The terms FFN::Evaluate returns after its Forward.
EvaluateLoss(s, begin, batchSize) ==
  IF Threw(s) THEN s
  ELSE [s EXCEPT !.tr.res = @ \o <<OutputLoss(begin, batchSize),
                                    LayerLosses(begin, batchSize)>>]

\* FFN::Evaluate(parameters, begin, batchSize, deterministic).
Evaluate(s, begin, batchSize, det) ==
  EvaluateLoss(
    Forward(NotePass(SetMode(ForwardWeights(s), det), begin, batchSize),
            [rows |-> s.predictors.rows, cols |-> batchSize], TRUE,
            0, Len(s.network) - 1),
    begin, batchSize)

\* The loop of FFN::Evaluate(parameters) from column i of n.
RECURSIVE EvaluateLoop(_, _, _)
EvaluateLoop(s, i, n) ==
  IF i >= n \/ Threw(s) THEN s
  ELSE EvaluateLoop(Evaluate(s, i, 1, TRUE), i + 1, n)

\* Evaluate(parameters) with a fault: the dataset goes through in one batch.
\* C18 must tell it apart.
EvaluateAllBatched(s) ==
  IF s.predictors.cols = 0 THEN s
  ELSE Evaluate(s, 0, s.predictors.cols, TRUE)

\* FFN::Evaluate(parameters): the whole bound dataset.
EvaluateAll(s) == EvaluateLoop(s, 0, s.predictors.cols)

\* Backward() unless the step before it threw.
ThenBackward(s) == IF Threw(s) THEN s ELSE Backward(s)

\* The loop of FFN::EvaluateWithGradient that adds the layers' losses to
\* what Evaluate returned.
AddLayerLosses(s, begin, batchSize) ==
  IF Threw(s) THEN s
  ELSE [s EXCEPT !.tr.res = Append(@, LayerLosses(begin, batchSize))]

\* FFN::EvaluateWithGradient(parameters, begin, gradient, batchSize).
EvaluateWithGradient(s, begin, batchSize, fault) ==
  ThenGradient(
    ThenBackward(AddLayerLosses(Evaluate(s, begin, batchSize, FALSE),
                                begin, batchSize)),
    fault)

\* The loop of FFN::Predict from column i of n, one Forward each.
RECURSIVE PredictLoop(_, _, _, _)
PredictLoop(s, rows, i, n) ==
  IF i >= n \/ Threw(s) THEN s
  ELSE PredictLoop(Forward(NotePass(s, i, 1), [rows |-> rows, cols |-> 1],
                           FALSE, 0, Len(s.network) - 1),
                   rows, i + 1, n)

\* Predict with a fault: the mode is left as it is.  C19 must tell it
\* apart.
PredictKeepingMode(s, preds) ==
  PredictLoop(ForwardWeights([s EXCEPT !.tr.samples = preds.cols]),
              preds.rows, 0, preds.cols)

\* FFN::Predict(predictors, results).
Predict(s, preds) ==
  PredictLoop(SetMode(ForwardWeights([s EXCEPT !.tr.samples = preds.cols]),
                      TRUE),
              preds.rows, 0, preds.cols)

\* Loading with a fault: the members of a training session are left as they
\* were.  C21 must tell it apart.
LoadKeepingSession(s, net, params, dims, rst) ==
  [s EXCEPT !.network = net, !.parameters = params,
            !.inputDimensions = dims, !.reset = rst,
            !.layerOutputs = [i \in DOMAIN net |-> NoView],
            !.layerDeltas = [i \in DOMAIN net |-> NoView],
            !.layerGradients = [i \in DOMAIN net |-> NoView]]

\* FFN::serialize, loading: the archive's layers, parameters, input
\* dimensions and reset flag replace the object's.
Load(s, net, params, dims, rst) ==
  [s EXCEPT !.network = net, !.parameters = params,
            !.inputDimensions = dims, !.reset = rst,
            !.predictors = NoMat, !.numFunctions = 0,
            !.layerOutputMatrix = 0,
            !.layerOutputs = [i \in DOMAIN net |-> NoView],
            !.deltaMatrix = 0,
            !.layerDeltas = [i \in DOMAIN net |-> NoView],
            !.layerGradients = [i \in DOMAIN net |-> NoView],
            !.deterministic = TRUE]

\* FFN::serialize, saving: the members in the order they are written.
Saved(s) ==
  [names |-> <<"outputLayer", "initializeRule", "network", "parameters",
               "inputDimensions", "reset">>,
   network |-> Archived(s.network), parameters |-> s.parameters,
   inputDimensions |-> s.inputDimensions, reset |-> s.reset]

\* What the layers compute with: for each layer, the weights it sees.
WeightsSeen(s) == [i \in DOMAIN s.network |-> s.network[i].w]

\* The members serialize reads and writes, as the object holds them.
Persistent(s) ==
  <<WeightSizes(s.network), OutputSizes(s.network), s.parameters,
    s.inputDimensions, s.reset>>

\* An object as its constructor leaves it, for the members a load does not
\* replace.
Fresh(s) ==
  [s EXCEPT !.layerMemoryIsSet = FALSE, !.inputDimensionsAreSet = FALSE,
            !.totalInputSize = 0, !.totalOutputSize = 0]

\* The network s is saved, and the archive is loaded into a newly
\* constructed object or into the object itself.
SaveAndLoad(s, fresh) ==
  LET ar == Saved(s)
      l == Load(IF fresh THEN Fresh(s) ELSE s, ar.network, ar.parameters,
                ar.inputDimensions, ar.reset)
  IN [l EXCEPT !.tr.archive = ar.names, !.tr.saved = Persistent(s),
               !.tr.loaded = Persistent(l),
               !.tr.before = WeightsSeen(s)]

\* After the second Predict: the weights its layers computed with.
NoteAfter(s) == [s EXCEPT !.tr.after = WeightsSeen(s)]

\* Predict on a sample, save, load, Predict on the same sample.
RoundTrip(s, preds, fresh) ==
  NoteAfter(Predict(SaveAndLoad(Predict(s, preds), fresh), preds))

\* Layer::Clone(): a new layer object of the same kind and sizes with the
\* state of its source.  What the source's weight view showed is in the
\* clone as "cloned": the source's weights, not a view of the parameters of
\* the network the clone goes into.
Clone(layer) ==
  [layer EXCEPT !.w = IF @.buf = "none" THEN NoView
                      ELSE [@ EXCEPT !.buf = "cloned"]]

\* FFN::FFN(const FFN& network): the object becomes the copy.  reset,
\* parameters (a matrix of its own with the same elements), inputDimensions,
\* predictors, numFunctions and deterministic are copied, the layers are
\* cloned, the three vectors of views are sized anew with empty matrices,
\* totalOutputSize is copied and the two arenas are new and empty.  No
\* SetWeights is called on the clones (the call is commented out).  The
\* initializer list names neither layerMemoryIsSet nor
\* inputDimensionsAreSet, and the body assigns neither: the copy holds
\* whatever its storage held, memSet and dimsSet.
Copy(s, memSet, dimsSet) ==
  [s EXCEPT !.network = [i \in DOMAIN s.network |-> Clone(s.network[i])],
            !.layerMemoryIsSet = memSet,
            !.inputDimensionsAreSet = dimsSet,
            !.totalInputSize = 0,
            !.layerOutputMatrix = 0,
            !.layerOutputs = [i \in DOMAIN s.network |-> NoView],
            !.deltaMatrix = 0,
            !.layerDeltas = [i \in DOMAIN s.network |-> NoView],
            !.layerGradients = [i \in DOMAIN s.network |-> NoView]]

\* ----------------------------------------------------------- DatasetMapper
\* std::unordered_map as a function: its keys are its domain.
NoKeys == <<>>

Put(f, key, value) ==
  [k \in DOMAIN f \cup {key} |-> IF k = key THEN value ELSE f[k]]

\* A default-constructed element of maps: no string and no value.
NoMappings == [first |-> NoKeys, second |-> NoKeys]

NoLookup == [op |-> "none", exc |-> "none", result |-> 0]

MapDims == 0..(MaxMapDims - 1)
Strings == 1..MaxStrings

\* maps[dimension] of std::unordered_map: an absent key is inserted with a
\* default-constructed element.
Subscript(m, dimension) ==
  IF dimension \in DOMAIN m THEN m ELSE Put(m, dimension, NoMappings)

\* PolicyType::MapString(string, dimension, maps, types) of the incrementing
\* policy: a string not seen in the dimension gets the next value there, in
\* both directions, and the dimension becomes categorical.
PolicyMapString(m, ty, string, dimension) ==
  LET at == Subscript(m, dimension)[dimension]
      value == Cardinality(DOMAIN at.first)
      grown == [i \in 1..(IF dimension + 1 > Len(ty) THEN dimension + 1
                           ELSE Len(ty)) |->
                  IF i = dimension + 1 THEN "categorical"
                  ELSE IF i <= Len(ty) THEN ty[i] ELSE "numeric"]
  IN IF string \in DOMAIN at.first
     THEN [maps |-> Subscript(m, dimension), types |-> grown,
           result |-> at.first[string]]
     ELSE [maps |-> Put(m, dimension,
                        [first |-> Put(at.first, string, value),
                         second |-> Put(at.second, value, <<string>>)]),
           types |-> grown, result |-> value]

\* DatasetMapper::UnmapValue(string, dimension): what it leaves in maps, how
\* it ends and what it returns.
UnmapValue(m, string, dimension) ==
  LET touched == Subscript(m, dimension)
  IN IF string \notin DOMAIN touched[dimension].first
     THEN [maps |-> touched, exc |-> "invalid_argument", result |-> 0]
     ELSE [maps |-> touched, exc |-> "none",
           result |-> touched[dimension].first[string]]

\* DatasetMapper::UnmapString(value, dimension, unmappingIndex), a const
\* member: maps.at(dimension) throws std::out_of_range on an absent key.
UnmapString(m, value, dimension, unmappingIndex) ==
  IF dimension \notin DOMAIN m
  THEN [exc |-> "out_of_range", result |-> 0]
  ELSE IF value \notin DOMAIN m[dimension].second
       THEN [exc |-> "invalid_argument", result |-> 0]
       ELSE IF unmappingIndex >= Len(m[dimension].second[value])
            THEN [exc |-> "invalid_argument", result |-> 0]
            ELSE [exc |-> "none",
                  result |-> m[dimension].second[value][unmappingIndex + 1]]

\* DatasetMapper::NumMappings(dimension).
NumMappings(m, dimension) ==
  IF dimension \notin DOMAIN m THEN 0
  ELSE Cardinality(DOMAIN m[dimension].first)

\* DatasetMapper::DatasetMapper(dimensionality).
DatasetMapper(dimensionalities) ==
  /\ maps = NoKeys
  /\ types \in {[i \in 1..d |-> "numeric"] : d \in dimensionalities}
  /\ lookup = NoLookup

\* ------------------------------------------------------------------ start
\* FFN::FFN(outputLayer, initializeRule), then Add() for each layer and,
\* optionally, InputDimensions() = a declared shape.
\* The constructor's initializer list names reset, numFunctions and
\* deterministic only; layerMemoryIsSet and inputDimensionsAreSet start false
\* (nothing has set the layers' memory or dimensions yet), and the sizes,
\* which every pass writes before it reads them, start at 0.
Construct(nets, shapes) ==
  /\ reset = FALSE
  /\ network \in nets
  /\ parameters = 0
  /\ inputDimensions \in shapes
  /\ predictors = NoMat
  /\ numFunctions = 0
  /\ deterministic = FALSE
  /\ layerMemoryIsSet = FALSE
  /\ inputDimensionsAreSet = FALSE
  /\ totalInputSize = 0
  /\ totalOutputSize = 0
  /\ layerOutputMatrix = 0
  /\ layerOutputs = [i \in DOMAIN network |-> NoView]
  /\ deltaMatrix = 0
  /\ layerDeltas = [i \in DOMAIN network |-> NoView]
  /\ layerGradients = [i \in DOMAIN network |-> NoView]
  /\ tr = NoTrace

Init == Construct(Networks, {<<>>}) /\ DatasetMapper({0})

\* The same, a network with no layer among them (no Add() call made).
InitEmpty == Construct(Networks \cup {<<>>}, {<<>>}) /\ DatasetMapper({0})

\* One network, and a mapper constructed for any number of dimensions.
InitMapper ==
  Construct({<<NewLayer(0, 1)>>}, {<<>>}) /\ DatasetMapper(0..MaxMapDims)

\* ---------------------------------------------------------------- actions
\* FFN::Train up to the optimizer's loop: ResetData binds the dataset.  The
\* optimizer's calls into the objective functions are the actions below.
Train ==
  \E rows \in 1..MaxRows, cols \in 1..MaxBatch :
    Install(ResetData(Enter("Train"), [rows |-> rows, cols |-> cols],
                      [rows |-> 1, cols |-> cols]))

\* FFN::Forward(inputs, results): the whole network, into the caller's
\* matrix.
ForwardAll(s, inputs) == Forward(s, inputs, FALSE, 0, Len(s.network) - 1)

\* What a round of Forward, Backward and Gradient did, for the layer calls
\* after the first from: how it ended, the calls, the layout of every view
\* they were given, the weights and the mode of every layer.
RoundSummary(s, from) ==
  <<[exc |-> s.tr.exc,
     calls |-> SubSeq(s.tr.calls, from + 1, Len(s.tr.calls)),
     outputs |-> s.layerOutputs, deltas |-> s.layerDeltas,
     gradients |-> s.layerGradients, weights |-> WeightsSeen(s),
     det |-> [i \in DOMAIN s.network |-> s.network[i].det]]>>

\* Forward(inputs, results), then Backward(inputs, targets, gradients),
\* which ends with Gradient(inputs, gradients); nothing runs after a throw.
ThenForwardAll(s, inputs) == IF Threw(s) THEN s ELSE ForwardAll(s, inputs)

ThenBackwardPublic(s, fault) ==
  IF Threw(s) THEN s ELSE BackwardPublic(s, fault)

Round(s, inputs, fault) ==
  ThenBackwardPublic(ThenForwardAll(s, inputs), fault)

NoteRound1(s) ==
  [s EXCEPT !.tr.round1 = RoundSummary(s, 0), !.tr.mark = Len(s.tr.calls)]

NoteRound2(s) ==
  IF s.tr.round1[1].exc # "none" THEN s
  ELSE [s EXCEPT !.tr.round2 = RoundSummary(s, s.tr.mark)]

\* Two rounds in a row on the same input.
TwoRounds(s, inputs, fault1, fault2) ==
  NoteRound2(Round(NoteRound1(Round(s, inputs, fault1)), inputs, fault2))

\* A caller's Forward(inputs, results).
ForwardCall ==
  \E rows \in 1..MaxRows, cols \in 1..MaxBatch :
    Install(ForwardAll(Enter("Forward"), [rows |-> rows, cols |-> cols]))

\* A caller's Forward(inputs, results, begin, end) over any range of layer
\* positions, in order or not.
ForwardRangeCall ==
  \E rows \in 1..MaxRows, cols \in 1..MaxBatch :
    \E begin \in 0..(Len(network) - 1), end \in 0..(Len(network) - 1) :
      Install(Forward([Enter("ForwardRange") EXCEPT !.tr.begin = begin,
                                                     !.tr.end = end],
                      [rows |-> rows, cols |-> cols], FALSE, begin, end))

\* The same call on inputs of up to MaxShapeRows rows.
ShapeForwardCall ==
  \E rows \in 1..MaxShapeRows, cols \in 1..MaxBatch :
    Install(ForwardAll(Enter("Forward"), [rows |-> rows, cols |-> cols]))

\* The same call on batches of up to MaxArenaBatch columns.
ArenaForwardCall ==
  \E rows \in 1..MaxRows, cols \in 1..MaxArenaBatch :
    Install(ForwardAll(Enter("Forward"), [rows |-> rows, cols |-> cols]))

\* The same call on a batch of one column, of a few, or of many.
BatchForwardCall ==
  \E rows \in 1..MaxRows, cols \in {1, MaxBatch, MaxArenaBatch + MaxBatch} :
    Install(ForwardAll(Enter("Forward"), [rows |-> rows, cols |-> cols]))

\* A caller's Backward(inputs, targets, gradients) after a Forward over the
\* whole network.
BackwardCall ==
  /\ layerOutputs[Len(network)].buf = "cur"
  /\ \E fault \in BOOLEAN :
       Install(BackwardPublic(Enter("Backward"), fault))

\* A caller's Backward(inputs, targets, gradients) on a network with no
\* layer.
BackwardEmptyCall ==
  /\ Len(network) = 0
  /\ \E fault \in BOOLEAN :
       Install(BackwardOnEmpty(Enter("Backward"), fault))

\* The optimizer's Evaluate(parameters, begin, batchSize, deterministic) on
\* the bound dataset.
EvaluateCall ==
  \E batchSize \in 1..predictors.cols, det \in BOOLEAN :
    \E begin \in 0..(predictors.cols - batchSize) :
      Install(Evaluate(Enter("Evaluate"), begin, batchSize, det))

\* The optimizer's (or a caller's) Evaluate(parameters) on the bound dataset.
EvaluateAllCall ==
  /\ predictors # NoMat
  /\ Install(EvaluateAll(Enter("EvaluateAll")))

\* The optimizer's EvaluateWithGradient(parameters, begin, gradient,
\* batchSize) on the bound dataset.
EvaluateWithGradientCall ==
  \E batchSize \in 1..predictors.cols, fault \in BOOLEAN :
    \E begin \in 0..(predictors.cols - batchSize) :
      Install(EvaluateWithGradient(Enter("EvaluateWithGradient"), begin,
                                   batchSize, fault))

\* EvaluateWithGradient(parameters, begin, gradient, batchSize) with a
\* gradient matrix of any element count.  No statement of the pass reads
\* that count: InitializeGradientPassMemory takes gradient.memptr() only.
EvaluateWithGradientIntoCall ==
  \E batchSize \in 1..predictors.cols, fault \in BOOLEAN,
     elems \in 0..MaxParams :
    \E begin \in 0..(predictors.cols - batchSize) :
      Install(EvaluateWithGradient(
                [Enter("EvaluateWithGradient") EXCEPT !.tr.gradGiven = TRUE,
                                                      !.tr.gradElems = elems],
                begin, batchSize, fault))

\* A caller's Predict(predictors, results).
PredictCall ==
  \E rows \in 1..MaxRows, cols \in 1..MaxBatch :
    Install(Predict(Enter("Predict"), [rows |-> rows, cols |-> cols]))

\* Loading an archive of a network of the same layer kinds.
LoadCall ==
  \E params \in 0..MaxParams, dims \in {<<>>, inputDimensions},
     rst \in BOOLEAN :
    Install(Load(Enter("Load"), Archived(network), params, dims, rst))

\* Loading an archive of any network, of as many layers as it has, saved
\* before or after its weights were allocated.
LoadNetworkCall ==
  \E net \in Networks, params \in BOOLEAN :
    Install(Load(Enter("Load"), net,
                 IF params THEN TotalWeightSize(net) ELSE 0, <<>>, FALSE))

\* A round trip through an archive around two Predict calls.
RoundTripCall ==
  \E rows \in 1..MaxRows, cols \in 1..MaxBatch, fresh \in BOOLEAN :
    Install(RoundTrip(Enter("RoundTrip"), [rows |-> rows, cols |-> cols],
                      fresh))

\* Forward, Backward and Gradient twice in a row on the same input.
RoundsCall ==
  \E rows \in 1..MaxRows, cols \in 1..MaxBatch :
    \E fault1 \in BOOLEAN, fault2 \in BOOLEAN :
      Install(TwoRounds(Enter("Rounds"), [rows |-> rows, cols |-> cols],
                        fault1, fault2))

\* DatasetMapper::MapString(string, dimension).
MapStringCall ==
  \E string \in Strings, dimension \in MapDims :
    LET r == PolicyMapString(maps, types, string, dimension)
    IN /\ maps' = r.maps
       /\ types' = r.types
       /\ lookup' = [op |-> "MapString", exc |-> "none",
                     result |-> r.result]
       /\ UNCHANGED engine

\* DatasetMapper::UnmapValue(string, dimension).
UnmapValueCall ==
  \E string \in Strings, dimension \in MapDims :
    LET r == UnmapValue(maps, string, dimension)
    IN /\ maps' = r.maps
       /\ lookup' = [op |-> "UnmapValue", exc |-> r.exc,
                     result |-> r.result]
       /\ UNCHANGED <<types, engine>>

\* DatasetMapper::UnmapString(value, dimension, unmappingIndex).
UnmapStringCall ==
  \E value \in 0..MaxStrings, dimension \in MapDims,
     unmappingIndex \in 0..1 :
    LET r == UnmapString(maps, value, dimension, unmappingIndex)
    IN /\ lookup' = [op |-> "UnmapString", exc |-> r.exc,
                     result |-> r.result]
       /\ UNCHANGED <<maps, types, engine>>

\* DatasetMapper::NumMappings(dimension).
NumMappingsCall ==
  \E dimension \in MapDims :
    /\ lookup' = [op |-> "NumMappings", exc |-> "none",
                  result |-> NumMappings(maps, dimension)]
    /\ UNCHANGED <<maps, types, engine>>

\* FFN B(A): from here on the object is the copy.
CopyCall ==
  \E memSet \in BOOLEAN, dimsSet \in BOOLEAN :
    Install(Copy(Enter("Copy"), memSet, dimsSet))

\* The main specification: the whole life of a network on flat inputs.
Next ==
  \/ Train
  \/ ForwardCall
  \/ BackwardCall
  \/ EvaluateCall
  \/ EvaluateWithGradientCall
  \/ EvaluateAllCall
  \/ PredictCall
  \/ LoadCall

Spec == Init /\ [][Next]_vars

\* The weights specification: the operations that replace the parameters or
\* set the layers' views into them (Forward allocates and calls
\* SetLayerMemory, loading replaces the parameters).
NextWeights ==
  \/ ForwardCall
  \/ LoadCall

SpecWeights == Init /\ [][NextWeights]_vars

\* The gradient specification: the operations that lead to Gradient.
NextGradient ==
  \/ Train
  \/ ForwardCall
  \/ BackwardCall
  \/ EvaluateWithGradientCall

SpecGradient == Init /\ [][NextGradient]_vars

\* The dataset specification: binding a dataset, and the operations that
\* walk it.
NextDataset ==
  \/ Train
  \/ EvaluateCall
  \/ EvaluateAllCall
  \/ PredictCall

SpecDataset == Init /\ [][NextDataset]_vars

\* The range specification: Forward over ranges of layers.
NextRange == ForwardRangeCall

SpecRange == Init /\ [][NextRange]_vars

\* Networks that are trained, run and replaced by loaded ones.
NextLoad ==
  \/ Train
  \/ EvaluateWithGradientCall
  \/ LoadNetworkCall

SpecLoad == Init /\ [][NextLoad]_vars

\* Networks that are trained, run, and saved and loaded again.
NextRoundTrip ==
  \/ Train
  \/ ForwardCall
  \/ BackwardCall
  \/ RoundTripCall

SpecRoundTrip == Init /\ [][NextRoundTrip]_vars

\* Training steps into gradient matrices of any size.
NextGradientBuffer ==
  \/ Train
  \/ EvaluateWithGradientIntoCall

SpecGradientBuffer == Init /\ [][NextGradientBuffer]_vars

\* The gradient pass alone: training binds the data, EvaluateWithGradient
\* runs forward, backward and gradient passes over a batch of it.
NextGradientPass ==
  \/ Train
  \/ EvaluateWithGradientCall

SpecGradientPass == Init /\ [][NextGradientPass]_vars

\* Forward and Backward on networks of any number of layers, none
\* included; Forward on no layer is left out.
NextEmpty ==
  \/ Len(network) > 0 /\ ForwardCall
  \/ Len(network) > 0 /\ BackwardCall
  \/ BackwardEmptyCall

SpecEmpty == InitEmpty /\ [][NextEmpty]_vars

\* Passes of any batch size, and rounds repeated on one input.
NextRounds ==
  \/ ForwardCall
  \/ BackwardCall
  \/ RoundsCall

SpecRounds == Init /\ [][NextRounds]_vars

\* The calls on a dataset mapper.
NextMapper ==
  \/ MapStringCall
  \/ UnmapValueCall
  \/ UnmapStringCall
  \/ NumMappingsCall

SpecMapper == InitMapper /\ [][NextMapper]_vars

\* Networks, their copies and the passes made on them.
NextCopy ==
  \/ ForwardCall
  \/ BackwardCall
  \/ CopyCall

SpecCopy == Init /\ [][NextCopy]_vars

\* The shape specification: Forward on networks with a declared input shape.
InitShape == Construct(ArenaNetworks, ShapeChoices) /\ DatasetMapper({0})

NextShape == ShapeForwardCall

SpecShape == InitShape /\ [][NextShape]_vars

\* The arena specification: forward and backward passes whose batch size
\* grows and shrinks.
InitArena == Construct(ArenaNetworks, {<<>>}) /\ DatasetMapper({0})

NextArena ==
  \/ ArenaForwardCall
  \/ BackwardCall

SpecArena == InitArena /\ [][NextArena]_vars

\* Both arenas under batches that grow and shrink by a little and by much.
NextArenaViews ==
  \/ BatchForwardCall
  \/ BackwardCall

SpecArenaViews == InitArena /\ [][NextArenaViews]_vars

\* The output arena alone: forward passes whose batch size grows and shrinks
\* (no other operation assigns layerOutputMatrix or layerOutputs).
NextForwardArena == ArenaForwardCall

SpecForwardArena == InitArena /\ [][NextForwardArena]_vars

\* ----------------------------------------------------------------- claims
\* The layers' weight views as SetLayerMemory is to leave them: the first at
\* offset 0, each next one where the one before ends, each of its layer's
\* WeightSize() elements, the last ending where the parameters end.
ViewsPartition ==
  LET n == Len(network)
  IN /\ \A i \in 1..n :
          /\ network[i].w.buf = "cur"
          /\ network[i].w.rows * network[i].w.cols = network[i].ws
     /\ network[1].w.off = 0
     /\ \A i \in 1..(n - 1) :
          network[i + 1].w.off = network[i].w.off + network[i].ws
     /\ network[n].w.off + network[n].ws = parameters

\* C1, as stated: after SetLayerMemory completes the weight views partition
\* the parameter buffer and their offsets are strictly increasing in layer
\* order.
C1_StrictOffsets ==
  tr.slm =>
    /\ ViewsPartition
    /\ \A i, j \in DOMAIN network :
         i < j => network[i].w.off < network[j].w.off

\* C1, amended: after SetLayerMemory completes the weight views partition the
\* parameter buffer (no gaps, no overlaps, sizes summing to the buffer size)
\* and their offsets never decrease in layer order; they increase strictly
\* past every layer whose WeightSize() is positive.
C1_Partition ==
  tr.slm =>
    /\ ViewsPartition
    /\ \A i, j \in DOMAIN network :
         i < j => /\ network[i].w.off + network[i].ws <= network[j].w.off
                  /\ network[i].ws > 0 => network[i].w.off < network[j].w.off

\* SetLayerMemory completed on two layers, one of them without weights.
C1_Witness ==
  /\ tr.slm
  /\ Len(network) = 2
  /\ network[1].ws = 0
  /\ network[2].ws > 0

\* C2: whenever an operation called a layer, the weight view of every layer
\* that has weights pointed into the current parameter buffer at that
\* layer's offset.
C2_ViewsCurrentAtCalls ==
  tr.calls # <<>> =>
    \A i \in DOMAIN network :
      network[i].ws > 0 =>
        network[i].w = MakeAlias(WeightOffset(network, i), network[i].ws, 1)

\* C3: a Train call on a network that an earlier Train call bound a dataset
\* to, with no load in between, does not call InitializeWeights.
C3_InitOnFirstTrainOnly ==
  [][(predictors # NoMat /\ tr'.op = "Train") => tr'.initCalls = 0]_vars

\* The layers an operation ran Forward on.
ForwardRan == \E k \in DOMAIN tr.calls : tr.calls[k].kind = "Forward"

\* C4: at every layer Forward call each layer's deterministic flag equals
\* the network's.
C4_ModeBroadcast ==
  ForwardRan => \A i \in DOMAIN network : network[i].det = deterministic

\* C5: when Forward passes the input dimensions, it accepts the input iff
\* the input's rows equal the product of the axes of the shape in force.
C5_AcceptsProduct ==
  tr.resolved => (tr.exc = "none" <=> tr.rows = ProdSeq(inputDimensions))

\* C6, for shapes of one axis (where the sum and the product of the axes
\* agree): a Forward whose input rows differ from the shape fails with
\* ShapeMismatch before any layer runs and before the arena is touched.
C6_EveryForwardChecks ==
  (tr.entered /\ Len(inputDimensions) = 1 /\ tr.rows # inputDimensions[1]) =>
    (tr.exc = "ShapeMismatch" /\ tr.calls = <<>> /\ ~tr.fwdRan)

\* C7: a Forward that requests r elements of an output arena of capacity c
\* replaces the arena by one of exactly r elements whenever r > c and
\* whenever r < 0.1 c.
C7_ReallocOutsideBand ==
  [][(tr'.op = "Forward" /\ tr'.fwdRan
        /\ (tr'.fwdR > layerOutputMatrix \/ 10 * tr'.fwdR < layerOutputMatrix))
     => (tr'.fwdRealloc /\ layerOutputMatrix' = tr'.fwdR)]_vars

\* The views InitializeForwardPassMemory slices for batch size b.
Resliced(views, b) ==
  \A i \in DOMAIN views :
    views[i] = MakeAlias(b * SumSeq(SubSeq(OutputSizes(network), 1, i - 1)),
                         network[i].os, b)

C9_OwnHysteresis ==
  [][(tr'.op = "Backward" /\ tr'.bwdRan)
     => (tr'.bwdRealloc <=>
           (tr'.bwdR > deltaMatrix \/ tr'.bwdR < FloorTenth(deltaMatrix)))]_vars

\* C10: a Backward with batch size b requests b times the network's input
\* elements plus the output sizes of all layers but the last.
C10_DeltaRequest ==
  (tr.op = "Backward" /\ tr.bwdRan) =>
    tr.bwdR = tr.bwdB * (ProdSeq(inputDimensions)
                         + SumSeq(SubSeq(OutputSizes(network), 1,
                                         Len(network) - 1)))

\* C11: Forward(input, results, begin, end) with end < begin runs no layer
\* and leaves the parameters, the layers (their weight views and
\* dimensions), the input dimensions, both arenas, every view and the
\* results (never resized) as they were.
C11_EmptyRangeNoOp ==
  [][(tr'.op = "ForwardRange" /\ tr'.end < tr'.begin)
     => (/\ tr'.calls = <<>>
         /\ tr'.setSize = 0
         /\ tr'.initCalls = 0
         /\ UNCHANGED <<reset, network, parameters, inputDimensions,
                        predictors, numFunctions, deterministic,
                        layerMemoryIsSet, inputDimensionsAreSet,
                        totalInputSize, totalOutputSize, layerOutputMatrix,
                        layerOutputs, deltaMatrix, layerDeltas,
                        layerGradients>>)]_vars

\* Forward over an empty range on a network that has no weights yet (a
\* Forward over a proper range would allocate them).
C11_Witness ==
  /\ tr.op = "ForwardRange"
  /\ tr.end < tr.begin
  /\ parameters = 0

CallsOf(kind) == SelectSeq(tr.calls, LAMBDA c : c.kind = kind)

\* C13: on a network of one layer Backward and Gradient call the layer once
\* each, Gradient on the input and the error, and no call names a view
\* outside [0, number of layers).
C13_SingleLayerDirect ==
  (Len(network) = 1 /\ tr.op \in {"Backward", "EvaluateWithGradient"}
     /\ tr.bwdRan /\ tr.exc \notin {"SizeMismatch", "ShapeMismatch",
                                     "AliasOutsideBounds"}) =>
    /\ tr.exc = "none"
    /\ Len(CallsOf("Backward")) = 1
    /\ Len(CallsOf("Gradient")) = 1
    /\ \A k \in DOMAIN tr.calls : ~PastEnd(tr.calls[k], 1)
    /\ \A k \in DOMAIN tr.calls :
         tr.calls[k].kind = "Gradient" =>
           tr.calls[k].a = "input" /\ tr.calls[k].b = "error"

\* Backward calls bwd on n layers after the Forward calls fwd: decreasing
\* layer order; layer L is given the view its own Forward call wrote and the
\* delta the call before wrote for layer L + 1 (the error for the last
\* layer), and writes the delta of layer L, which for layer 0 no call reads.
BackwardChain(fwd, bwd, n) ==
  /\ Len(bwd) = n
  /\ \A k \in 1..n :
       LET c == bwd[k]
           L == n - k
       IN /\ c.layer = L
          /\ c.a = "layerOutputs" /\ c.aIdx = L
          /\ \E j \in DOMAIN fwd :
               /\ fwd[j].layer = L
               /\ fwd[j].out = "layerOutputs"
               /\ fwd[j].outIdx = L
          /\ IF k = 1 THEN c.b = "error"
             ELSE /\ c.b = "layerDeltas" /\ c.bIdx = L + 1
                  /\ bwd[k - 1].out = "layerDeltas"
                  /\ bwd[k - 1].outIdx = L + 1
          /\ c.out = "layerDeltas" /\ c.outIdx = L
  /\ \A k \in 1..n : ~(bwd[k].b = "layerDeltas" /\ bwd[k].bIdx = 0)

\* The calls of one kind in a sequence of calls.
OfKind(calls, kind) == SelectSeq(calls, LAMBDA c : c.kind = kind)

\* C14: a Backward that follows a Forward over the whole network, through
\* EvaluateWithGradient or through Forward(inputs, results) and then
\* Backward(inputs, targets, gradients), runs the layers in decreasing
\* order, each on the output it produced in that Forward and on the delta
\* of the layer after it.
C14_BackwardChain ==
  [][/\ (tr'.op = "EvaluateWithGradient" /\ tr'.bwdRan
           /\ tr'.exc \in {"none", "Crash"})
          => BackwardChain(OfKind(tr'.calls, "Forward"),
                           OfKind(tr'.calls, "Backward"), Len(network'))
     /\ (tr.op = "Forward" /\ tr.exc = "none" /\ tr'.op = "Backward"
           /\ tr'.bwdRan /\ tr'.exc \in {"none", "Crash"})
          => BackwardChain(tr.calls, OfKind(tr'.calls, "Backward"),
                           Len(network'))]_vars

\* An operation ran Gradient to its end.
GradientRan ==
  /\ tr.op \in {"Backward", "EvaluateWithGradient"}
  /\ tr.exc = "none"
  /\ OfKind(tr.calls, "Gradient") # <<>>

C16_GradientLayout ==
  GradientRan =>
    LET n == Len(network)
        size(v) == v.rows * v.cols
    IN /\ \A i \in 1..n :
            /\ layerGradients[i].buf = "cur"
            /\ size(layerGradients[i]) = network[i].ws
            /\ network[i].w.buf # "none" =>
                 /\ layerGradients[i].off = network[i].w.off
                 /\ size(layerGradients[i]) = size(network[i].w)
       /\ layerGradients[1].off = 0
       /\ \A i \in 1..(n - 1) :
            layerGradients[i + 1].off =
              layerGradients[i].off + size(layerGradients[i])
       /\ layerGradients[n].off + size(layerGradients[n]) =
            TotalWeightSize(network)

\* Gradient ran on two layers that both hold weight views, the first layer
\* with weights.
C16_Witness ==
  /\ GradientRan
  /\ Len(network) = 2
  /\ network[1].ws > 0
  /\ network[1].w.buf = "cur"
  /\ network[2].w.buf = "cur"
  /\ layerGradients[2].off > 0
\* C17: EvaluateWithGradient on the batch [begin, begin + batchSize) runs
\* with the network in training mode and returns the output layer's loss
\* on the batch plus the layers' losses, each counted once: what Evaluate
\* with deterministic = false returns.
C17_LossOnce ==
  (tr.op = "EvaluateWithGradient" /\ tr.exc \in {"none", "Crash"}) =>
    /\ Len(tr.passes) = 1
    /\ ~tr.passes[1].det
    /\ tr.res = <<OutputLoss(tr.passes[1].begin, tr.passes[1].batch),
                  LayerLosses(tr.passes[1].begin, tr.passes[1].batch)>>
\* The passes of a walk over n columns one at a time: column i alone, in
\* order, each with the network's deterministic flag set.
OneByOne(passes, n) ==
  /\ Len(passes) = n
  /\ \A k \in 1..n :
       passes[k] = [begin |-> k - 1, batch |-> 1, det |-> TRUE]

\* The Forward calls of a walk of m passes over the whole network: pass k
\* calls layers 0..n - 1 in order.
FullPasses(calls, m) ==
  LET n == Len(network)
  IN /\ Len(calls) = m * n
     /\ \A k \in 1..(m * n) :
          /\ calls[k].kind = "Forward"
          /\ calls[k].layer = (k - 1) % n

\* The per-sample losses of columns 0..n - 1 in order.
RECURSIVE SampleLosses(_)
SampleLosses(n) ==
  IF n = 0 THEN <<>>
  ELSE SampleLosses(n - 1) \o <<OutputLoss(n - 1, 1), LayerLosses(n - 1, 1)>>

\* C18: Evaluate(parameters) on a bound dataset of N columns that does not
\* throw makes one pass per column, column i alone, in order, returns the
\* sum of the N per-sample losses, and has the network's deterministic
\* flag true at every pass and after the call.
C18_EvaluateAll ==
  (tr.op = "EvaluateAll" /\ tr.exc = "none") =>
    /\ OneByOne(tr.passes, predictors.cols)
    /\ FullPasses(tr.calls, predictors.cols)
    /\ tr.res = SampleLosses(predictors.cols)
    /\ deterministic

\* Evaluate(parameters) walked a dataset of two columns.
C18_Witness ==
  /\ tr.op = "EvaluateAll"
  /\ tr.exc = "none"
  /\ predictors.cols = 2
  /\ Len(tr.passes) = 2

\* C19: a Predict on n columns that does not throw makes n Forward passes
\* over the whole network, the i-th on column i alone, with the network in
\* inference mode from the first pass on and after the call; if the network
\* was in training mode the layers are told so before the first pass.
C19_PredictPasses ==
  [][(tr'.op = "Predict" /\ tr'.exc = "none")
     => (/\ OneByOne(tr'.passes, tr'.samples)
         /\ Len(tr'.calls) = tr'.samples * Len(network')
         /\ \A k \in DOMAIN tr'.calls :
              /\ tr'.calls[k].kind = "Forward"
              /\ tr'.calls[k].layer = (k - 1) % Len(network')
         /\ tr'.setSize = network'[Len(network')].os
         /\ deterministic'
         /\ ~deterministic =>
              \A i \in DOMAIN network' : network'[i].det)]_vars

\* Predict on two columns, the layers in inference mode after it.
C19_Witness ==
  /\ tr.op = "Predict"
  /\ tr.exc = "none"
  /\ tr.samples = 2
  /\ Len(tr.passes) = 2
  /\ \A i \in DOMAIN network : network[i].det

\* C20: the views of a copy are derived against the copy's own buffers:
\* once a Forward on the object has run its layers, every layer that has
\* weights holds a view of the object's own parameters, and so does every
\* output view, whether or not the object is a copy of another network.
C20_CopyRelinked ==
  (tr.op = "Forward" /\ tr.exc = "none" /\ tr.calls # <<>>)
    => /\ \A i \in DOMAIN network :
            network[i].ws > 0 => network[i].w.buf = "cur"
       /\ \A i \in DOMAIN layerOutputs : layerOutputs[i].buf = "cur"

\* C21: after a load, whatever the object was before, no dataset is bound
\* and the sample count is 0, the output and delta arenas are empty, the
\* vectors of output, delta and gradient views hold one empty view for each
\* loaded layer, and the network is in inference mode.
C21_LoadClears ==
  tr.op = "Load"
    => /\ predictors = NoMat
       /\ numFunctions = 0
       /\ layerOutputMatrix = 0
       /\ deltaMatrix = 0
       /\ layerOutputs = [i \in DOMAIN network |-> NoView]
       /\ layerDeltas = [i \in DOMAIN network |-> NoView]
       /\ layerGradients = [i \in DOMAIN network |-> NoView]
       /\ deterministic

\* A load of two layers into an object whose one layer had its memory set
\* by a pass (the flag is never lowered, and the dimensions it keeps are
\* those of that pass).
C21_Witness ==
  /\ tr.op = "Load"
  /\ Len(network) = 2
  /\ layerMemoryIsSet
  /\ totalOutputSize = 1

\* C22: a save writes the output layer, the initialization rule, the layers,
\* the parameters, the input dimensions and the reset flag in this order;
\* the loaded network has the layers, parameters, input dimensions and flag
\* that were saved; and the Predict after the load computes with the same
\* weights as the Predict before the save, so it gives the same result.
C22_RoundTrip ==
  (tr.op = "RoundTrip" /\ tr.exc = "none")
    => /\ tr.archive = <<"outputLayer", "initializeRule", "network",
                         "parameters", "inputDimensions", "reset">>
       /\ tr.loaded = tr.saved
       /\ tr.after = tr.before

\* C23: an EvaluateWithGradient given a gradient matrix whose element count
\* is not the sum of the layers' weight sizes ends with SizeMismatch, with
\* no gradient view issued and no layer's Gradient called.
C23_GradientSizeChecked ==
  (/\ tr.op = "EvaluateWithGradient"
   /\ tr.gradGiven
   /\ tr.gradElems # TotalWeightSize(network))
    => /\ tr.exc = "SizeMismatch"
       /\ OfKind(tr.calls, "Gradient") = <<>>
       /\ \A i \in DOMAIN layerGradients : layerGradients[i].buf # "cur"

\* C24: a Backward (with its Gradient) on a network with no layer ends with
\* OutOfRange, having called no layer and named no element outside the
\* vectors of views.
C24_EmptyOutOfRange ==
  (tr.op = "Backward" /\ Len(network) = 0)
    => /\ tr.exc = "OutOfRange"
       /\ tr.calls = <<>>
       /\ ~tr.outside

\* C25: when Forward, Backward and Gradient have run on an input, running
\* them again on the same input ends the same way, makes the same layer
\* calls on views of the same layout and leaves the same views, weights and
\* modes: nothing the first round left changes the second.
C25_RoundsAgree ==
  (tr.op = "Rounds" /\ tr.round1 # <<>> /\ tr.round1[1].exc = "none")
    => tr.round2 = tr.round1

\* C27: in an EvaluateWithGradient on a batch of b columns that reaches its
\* backward pass, the batch size InitializeBackwardPassMemory is given is b,
\* and every delta view it issues has b columns.
C27_BackwardBatch ==
  (tr.op = "EvaluateWithGradient" /\ tr.bwdRan
     /\ tr.exc \notin {"AliasOutsideBounds"})
    => /\ tr.bwdB = tr.passes[1].batch
       /\ \A i \in DOMAIN layerDeltas :
            layerDeltas[i].cols = tr.passes[1].batch

\* The views of a vector lie inside an arena of cap elements, one after the
\* other in layer order without overlap, none left over from an arena that
\* was replaced.
LaidOutInside(views, cap) ==
  /\ \A i \in DOMAIN views :
       /\ views[i].buf # "stale"
       /\ views[i].buf = "cur" =>
            views[i].off + views[i].rows * views[i].cols <= cap
  /\ \A i \in DOMAIN views : \A j \in DOMAIN views :
       (i < j /\ views[i].buf = "cur" /\ views[j].buf = "cur") =>
         views[i].off + views[i].rows * views[i].cols <= views[j].off

\* C26: after any forward and backward passes, whatever their batch sizes,
\* every output view lies inside the current output arena and every delta
\* view inside the current delta arena, the views of a vector follow one
\* another in layer order without overlap, and no "Creating alias outside
\* bounds!" assertion has failed.
C26_ViewsInsideArenas ==
  /\ LaidOutInside(layerOutputs, layerOutputMatrix)
  /\ LaidOutInside(layerDeltas, deltaMatrix)
  /\ tr.exc # "AliasOutsideBounds"

\* A backward pass on two layers that fits its views into a delta arena it
\* kept from a larger batch.
C26_Witness ==
  /\ tr.op = "Backward"
  /\ tr.bwdRan
  /\ ~tr.bwdRealloc
  /\ tr.bwdR < deltaMatrix
  /\ Len(network) = 2
  /\ layerDeltas[2].buf = "cur"
  /\ layerDeltas[2].off > 0

\* How every later lookup on a mapper holding m would end and what it would
\* return.
Answers(m) ==
  [q \in (MapDims \X (0..MaxStrings)) \X (0..1) |->
     <<NumMappings(m, q[1][1]),
       UnmapString(m, q[1][2], q[1][1], q[2]),
       [exc |-> UnmapValue(m, q[1][2], q[1][1]).exc,
        result |-> UnmapValue(m, q[1][2], q[1][1]).result]>>]

\* C28: an UnmapValue or UnmapString that fails reports an error and leaves
\* the maps and the types as they were, so every later NumMappings,
\* UnmapString and UnmapValue answers as it would have before the call.
C28_FailedLookupLeavesState ==
  [][(lookup'.op \in {"UnmapValue", "UnmapString"}
        /\ lookup'.exc # "none")
     => (/\ maps' = maps
         /\ types' = types
         /\ Answers(maps') = Answers(maps))]_vars
====
